---- MODULE Spec2Model ----
(***************************************************************************)
(* Slot-Swapper backend: the Event and SwapRequest collections and the     *)
(* request handlers of routes/events.ts and routes/swaps.ts.               *)
(*                                                                         *)
(* Every handler is an async function.  Each action below is the code      *)
(* that runs from one awaited store operation up to the next await (or up  *)
(* to the response), so that handlers interleave exactly where Node.js     *)
(* lets them interleave.  The first store operation is issued as soon as   *)
(* the request arrives, so the arrival and the first operation are one     *)
(* action.                                                                 *)
(***************************************************************************)
EXTENDS Integers, Sequences, FiniteSets, TLC

\* ------------------------------------------------------------------ bounds
NumUsers == 2
MaxEvents == 2
MaxRequests == 2
NumHandlers == 2

Users == 1..NumUsers
Handlers == 1..NumHandlers

\* ------------------------------------------------------- enums of the models
BUSY == "BUSY"
SWAPPABLE == "SWAPPABLE"
SWAP_PENDING == "SWAP_PENDING"
EventStatus == {BUSY, SWAPPABLE, SWAP_PENDING}

PENDING == "PENDING"
ACCEPTED == "ACCEPTED"
REJECTED == "REJECTED"
SwapRequestStatus == {PENDING, ACCEPTED, REJECTED}

\* A query that matches no document resolves to null.
Null == [null |-> TRUE]
\* An optional field of a request body that the caller left out
\* (a string field; a time field).
Absent == "absent"
NoTime == -1
\* A string that mongoose.Types.ObjectId.isValid rejects.
InvalidId == 0

VARIABLES
  events,        \* Event collection: _id -> document, Null once deleted
  swapRequests,  \* SwapRequest collection: _id -> document, in createdAt order
  handlers       \* the request handlers in flight

vars == <<events, swapRequests, handlers>>

\* ------------------------------------------------------------------ responses
Response(status, body) == [status |-> status, body |-> body]

InternalServerError == Response(500, "Internal server error")

NoResponse == Response(0, "")

\* No request is being served, and none has been answered yet.
Idle == [op |-> "idle", pc |-> "idle", resp |-> NoResponse]

\* What a handler keeps of a document it has read: the fields it uses later.
Select(doc, fields) == IF doc = Null THEN Null ELSE [f \in fields |-> doc[f]]

\* ------------------------------------------------------------- store queries
\* Event.findById(id)
EventFindById(id) ==
  IF id \in 1..Len(events) THEN events[id] ELSE Null

\* The lookup without the owner in its filter.
EventFindOneOfAnyOwner(id, userId) ==
  IF id \in 1..Len(events) THEN events[id] ELSE Null

\* Event.findOne({ _id: id, userId })
EventFindOneOwned(id, userId) ==
  IF id \in 1..Len(events) /\ events[id] # Null /\ events[id].userId = userId
  THEN events[id] ELSE Null

\* The populated path of a query result: null when the referenced event is gone,
\* and then the id the handler passes on to findByIdAndUpdate is null, which
\* matches no document.
NoId == 0
PopulatedId(id, doc) == IF doc = Null THEN NoId ELSE id

\* Event.findByIdAndUpdate(id, { status }): the collection after the update;
\* an id that matches no document changes nothing.
EventUpdateStatus(evs, id, status) ==
  IF id \in 1..Len(evs) /\ evs[id] # Null
  THEN [evs EXCEPT ![id].status = status]
  ELSE evs

\* Event.findByIdAndUpdate(id, { userId, status })
EventUpdateOwnerAndStatus(evs, id, userId, status) ==
  IF id \in 1..Len(evs) /\ evs[id] # Null
  THEN [evs EXCEPT ![id].userId = userId, ![id].status = status]
  ELSE evs

\* SwapRequest.findById(id)
SwapRequestFindById(id) ==
  IF id \in 1..Len(swapRequests) THEN swapRequests[id] ELSE Null

\* The lookup without the status in its filter.
SwapExistsOfAnyStatus(slotIds) ==
  \E r \in 1..Len(swapRequests) :
     \/ swapRequests[r].requesterSlotId \in slotIds
     \/ swapRequests[r].requestedSlotId \in slotIds

\* SwapRequest.findOne({ $or: [{requesterSlotId: id, status: PENDING},
\*                             {requestedSlotId: id, status: PENDING}] })
\* for every id of slotIds: does a document match?
PendingSwapExists(slotIds) ==
  \E r \in 1..Len(swapRequests) :
     /\ swapRequests[r].status = PENDING
     /\ \/ swapRequests[r].requesterSlotId \in slotIds
        \/ swapRequests[r].requestedSlotId \in slotIds

\* The lookup of the event routes with its second clause left out.
EventPendingSwapAsRequester(id) ==
  \E r \in 1..Len(swapRequests) :
    swapRequests[r].requesterSlotId = id /\ swapRequests[r].status = PENDING

\* SwapRequest.findOne({ $or: [{ requesterSlotId: id, status: PENDING },
\*                             { requestedSlotId: id, status: PENDING }] })
\* of router.put('/:id') and router.delete('/:id'): does a document match?
EventPendingSwap(id) ==
  \E r \in 1..Len(swapRequests) :
    \/ swapRequests[r].requesterSlotId = id /\ swapRequests[r].status = PENDING
    \/ swapRequests[r].requestedSlotId = id /\ swapRequests[r].status = PENDING

\* ------------------------------------------------------------------ handlers
\* A handler is free to take a request when it serves none: its last answer,
\* if any, stays readable in resp until the next request arrives.
IsFree(h) == handlers[h].pc \in {"idle", "done"}
At(h, op, pc) == handlers[h].op = op /\ handlers[h].pc = pc

\* The handler takes up or goes on with request req and awaits store operation pc.
Await(h, req, pc) ==
  handlers' = [handlers EXCEPT ![h] = [req EXCEPT !.pc = pc]]
\* The handler answers its request with response r.
Answer(h, r) ==
  handlers' = [handlers EXCEPT ![h] = [op |-> handlers[h].op, pc |-> "done", resp |-> r]]
\* A request of route op is answered with r before any store operation.
Refuse(h, op, r) ==
  handlers' = [handlers EXCEPT ![h] = [op |-> op, pc |-> "done", resp |-> r]]

\* -------------------------------------------------- sessions and their locks
\* The _id that Event.findByIdAndUpdate(swapRequest.requesterSlotId, ...) gets.
RequesterSlotId(req) == PopulatedId(req.swapRequest.requesterSlotId, req.requesterSlot)
\* The _id that Event.findByIdAndUpdate(swapRequest.requestedSlotId, ...) gets.
RequestedSlotId(req) == PopulatedId(req.swapRequest.requestedSlotId, req.requestedSlot)


\* The documents the open transaction of handler g has written so far.
SessionWrites(g) ==
  IF handlers[g].op # "swapResponse" THEN {}
  ELSE (IF handlers[g].pc \in {"updateRequesterSlot", "updateRequestedSlot", "commitTransaction"}
        THEN {<<"SwapRequest", handlers[g].requestId>>} ELSE {})
       \cup
       (IF handlers[g].pc \in {"updateRequestedSlot", "commitTransaction"}
        THEN {<<"Event", RequesterSlotId(handlers[g])>>} ELSE {})
       \cup
       (IF handlers[g].pc = "commitTransaction"
        THEN {<<"Event", RequestedSlotId(handlers[g])>>} ELSE {})

\* Document doc carries an uncommitted write of another handler's transaction.
\* A write outside a transaction waits for that transaction to end; a write
\* inside another transaction is rejected with a write conflict.
WriteLocked(h, doc) ==
  /\ doc[2] # NoId
  /\ \E g \in Handlers \ {h} : doc \in SessionWrites(g)

\* ------------------------------------------------- routes/events.ts: POST /
\* createEventSchema: status is optional and may be any EventStatus.
CreateEventStatusInputs == EventStatus \cup {Absent}

\* router.post('/') up to Event.create: the time validation.
PostEvent(h, Titles, StartTimes, EndTimes) ==
  /\ IsFree(h)
  /\ Len(events) < MaxEvents
  /\ \E userId \in Users, title \in Titles, startTime \in StartTimes,
        endTime \in EndTimes, status \in CreateEventStatusInputs :
       IF endTime <= startTime
       THEN Refuse(h, "createEvent", Response(400, "End time must be after start time"))
       ELSE Await(h, [op |-> "createEvent", pc |-> "", resp |-> NoResponse,
                      userId |-> userId,
                      data |-> [title |-> title, startTime |-> startTime,
                                endTime |-> endTime, status |-> status]], "create")
  /\ UNCHANGED <<events, swapRequests>>

\* Event.create({ title, startTime, endTime, status: data.status || BUSY, userId })
CreateEventCreate(h) ==
  /\ At(h, "createEvent", "create")
  /\ events' = Append(events,
       [title |-> handlers[h].data.title,
        startTime |-> handlers[h].data.startTime,
        endTime |-> handlers[h].data.endTime,
        status |-> IF handlers[h].data.status = Absent THEN BUSY
                   ELSE handlers[h].data.status,
        userId |-> handlers[h].userId])
  /\ Answer(h, Response(201, "event"))
  /\ UNCHANGED swapRequests

\* ---------------------------------------------- routes/events.ts: PUT /:id
\* router.put('/:id') up to Event.findOne: the ObjectId validation.
PutEvent(h, Titles, StartTimes, EndTimes, Statuses) ==
  /\ IsFree(h)
  /\ \E userId \in Users, id \in InvalidId..MaxEvents, title \in Titles,
        startTime \in StartTimes, endTime \in EndTimes, status \in Statuses :
       IF id = InvalidId
       THEN Refuse(h, "updateEvent", Response(400, "Invalid event ID"))
       ELSE Await(h, [op |-> "updateEvent", pc |-> "", resp |-> NoResponse,
                      userId |-> userId, id |-> id,
                      data |-> [title |-> title, startTime |-> startTime,
                                endTime |-> endTime, status |-> status]], "findExisting")
  /\ UNCHANGED <<events, swapRequests>>

\* updateData of router.put('/:id') applied to a document: only the fields
\* the body supplies are overwritten.
UpdateData(data, doc) ==
  [doc EXCEPT
     !.title = IF data.title # Absent THEN data.title ELSE @,
     !.startTime = IF data.startTime # NoTime THEN data.startTime ELSE @,
     !.endTime = IF data.endTime # NoTime THEN data.endTime ELSE @,
     !.status = IF data.status # Absent THEN data.status ELSE @]

\* "Validate that endTime is after startTime if both are being updated"
UpdateTimesInvalid(data) ==
  /\ data.startTime # NoTime
  /\ data.endTime # NoTime
  /\ data.endTime <= data.startTime

\* The code between the pendingSwap guard and Event.findByIdAndUpdate.
UpdateEventValidate(h) ==
  IF UpdateTimesInvalid(handlers[h].data)
  THEN Answer(h, Response(400, "End time must be after start time"))
  ELSE Await(h, handlers[h], "findByIdAndUpdate")

\* Event.findOne({ _id: id, userId }), then the status guard's condition.
UpdateEventFindExisting(h) ==
  /\ At(h, "updateEvent", "findExisting")
  /\ LET existingEvent == EventFindOneOwned(handlers[h].id, handlers[h].userId)
         status == handlers[h].data.status
     IN IF existingEvent = Null
        THEN Answer(h, Response(404, "Event not found"))
        ELSE IF status # Absent /\ status # existingEvent.status
        THEN Await(h, handlers[h], "findPendingSwap")
        ELSE UpdateEventValidate(h)
  /\ UNCHANGED <<events, swapRequests>>

\* SwapRequest.findOne(pending swap of this event), reached on a status change.
UpdateEventFindPendingSwap(h) ==
  /\ At(h, "updateEvent", "findPendingSwap")
  /\ IF EventPendingSwap(handlers[h].id)
     THEN Answer(h, Response(400, "Cannot change status of event involved in a pending swap"))
     ELSE UpdateEventValidate(h)
  /\ UNCHANGED <<events, swapRequests>>

\* Event.findByIdAndUpdate(id, updateData, { new: true })
UpdateEventFindByIdAndUpdate(h) ==
  /\ At(h, "updateEvent", "findByIdAndUpdate")
  /\ ~WriteLocked(h, <<"Event", handlers[h].id>>)
  /\ IF EventFindById(handlers[h].id) = Null
     THEN /\ Answer(h, Response(404, "Event not found"))
          /\ UNCHANGED events
     ELSE /\ events' = [events EXCEPT ![handlers[h].id] = UpdateData(handlers[h].data, @)]
          /\ Answer(h, Response(200, "event"))
  /\ UNCHANGED swapRequests

\* ------------------------------------------- routes/events.ts: DELETE /:id
\* router.delete('/:id') up to Event.findOne: the ObjectId validation.
DeleteEvent(h) ==
  /\ IsFree(h)
  /\ \E userId \in Users, id \in InvalidId..MaxEvents :
       IF id = InvalidId
       THEN Refuse(h, "deleteEvent", Response(400, "Invalid event ID"))
       ELSE Await(h, [op |-> "deleteEvent", pc |-> "", resp |-> NoResponse,
                      userId |-> userId, id |-> id], "findExisting")
  /\ UNCHANGED <<events, swapRequests>>

\* Event.findOne({ _id: id, userId })
DeleteEventFindExisting(h) ==
  /\ At(h, "deleteEvent", "findExisting")
  /\ IF EventFindOneOwned(handlers[h].id, handlers[h].userId) = Null
     THEN Answer(h, Response(404, "Event not found"))
     ELSE Await(h, handlers[h], "findPendingSwap")
  /\ UNCHANGED <<events, swapRequests>>

\* SwapRequest.findOne(pending swap of this event)
DeleteEventFindPendingSwap(h) ==
  /\ At(h, "deleteEvent", "findPendingSwap")
  /\ IF EventPendingSwap(handlers[h].id)
     THEN Answer(h, Response(400, "Cannot delete event involved in a pending swap"))
     ELSE Await(h, handlers[h], "findByIdAndDelete")
  /\ UNCHANGED <<events, swapRequests>>

\* Event.findByIdAndDelete(id)
DeleteEventFindByIdAndDelete(h) ==
  /\ At(h, "deleteEvent", "findByIdAndDelete")
  /\ ~WriteLocked(h, <<"Event", handlers[h].id>>)
  /\ events' = [events EXCEPT ![handlers[h].id] = Null]
  /\ Answer(h, Response(204, "no content"))
  /\ UNCHANGED swapRequests

\* --------------------------------------- routes/swaps.ts: POST /swap-request
\* createProposal handlers that have not inserted their SwapRequest yet.
SwapRequestsToCome ==
  Cardinality({h \in Handlers :
     /\ handlers[h].op = "swapRequest"
     /\ handlers[h].pc \in {"findMySlot", "findTheirSlot", "findExistingSwap", "create"}})

\* router.post('/swap-request') up to Event.findOne: the ObjectId validation.
PostSwapRequest(h) ==
  /\ IsFree(h)
  /\ \E userId \in Users, mySlotId \in InvalidId..MaxEvents,
        theirSlotId \in InvalidId..MaxEvents :
       IF mySlotId = InvalidId \/ theirSlotId = InvalidId
       THEN Refuse(h, "swapRequest", Response(400, "Invalid slot ID"))
       ELSE /\ Len(swapRequests) + SwapRequestsToCome < MaxRequests
            /\ Await(h, [op |-> "swapRequest", pc |-> "", resp |-> NoResponse,
                         userId |-> userId, mySlotId |-> mySlotId,
                         theirSlotId |-> theirSlotId,
                         mySlot |-> Null, theirSlot |-> Null], "findMySlot")
  /\ UNCHANGED <<events, swapRequests>>

\* Event.findOne({ _id: mySlotId, userId })
SwapRequestFindMySlot(h) ==
  /\ At(h, "swapRequest", "findMySlot")
  /\ Await(h, [handlers[h] EXCEPT !.mySlot =
                 Select(EventFindOneOwned(handlers[h].mySlotId, handlers[h].userId),
                        {"status", "userId"})],
           "findTheirSlot")
  /\ UNCHANGED <<events, swapRequests>>

\* The checks between Event.findById(theirSlotId) and the existingSwap lookup,
\* in the code's order: the error response, or NoResponse when all of them pass.
SwapRequestChecks(mySlot, theirSlot) ==
  IF theirSlot = Null THEN Response(404, "Requested slot not found")
  ELSE IF mySlot = Null THEN Response(404, "Your slot not found")
  ELSE IF mySlot.status # SWAPPABLE
  THEN Response(400, "Your slot must be marked as swappable")
  ELSE IF theirSlot.status # SWAPPABLE
  THEN Response(400, "Requested slot is not swappable")
  ELSE IF mySlot.userId = theirSlot.userId
  THEN Response(400, "Cannot swap with your own slot")
  ELSE NoResponse

\* Event.findById(theirSlotId), then the checks on both slots.
SwapRequestFindTheirSlot(h) ==
  /\ At(h, "swapRequest", "findTheirSlot")
  /\ LET theirSlot == Select(EventFindById(handlers[h].theirSlotId), {"status", "userId"})
         error == SwapRequestChecks(handlers[h].mySlot, theirSlot)
     IN IF error # NoResponse
        THEN Answer(h, error)
        ELSE Await(h, [handlers[h] EXCEPT !.theirSlot = theirSlot], "findExistingSwap")
  /\ UNCHANGED <<events, swapRequests>>

\* The guard with the update of the offered slot issued ahead of it.
SwapRequestFindExistingSwapAfterUpdate(h) ==
  /\ At(h, "swapRequest", "findExistingSwap")
  /\ events' = EventUpdateStatus(events, handlers[h].mySlotId, SWAP_PENDING)
  /\ IF PendingSwapExists({handlers[h].mySlotId, handlers[h].theirSlotId})
     THEN Answer(h, Response(400, "One or both slots are already involved in a pending swap"))
     ELSE Await(h, handlers[h], "create")
  /\ UNCHANGED swapRequests

\* SwapRequest.findOne(a PENDING request on mySlotId or theirSlotId)
SwapRequestFindExistingSwap(h) ==
  /\ At(h, "swapRequest", "findExistingSwap")
  /\ IF PendingSwapExists({handlers[h].mySlotId, handlers[h].theirSlotId})
     THEN Answer(h, Response(400, "One or both slots are already involved in a pending swap"))
     ELSE Await(h, handlers[h], "create")
  /\ UNCHANGED <<events, swapRequests>>

\* SwapRequest.create(...).  The populate that follows only reads, for the
\* response body, and its failure is swallowed: it is part of this step.
SwapRequestCreate(h) ==
  /\ At(h, "swapRequest", "create")
  /\ swapRequests' = Append(swapRequests,
       [requesterId |-> handlers[h].userId,
        requestedId |-> handlers[h].theirSlot.userId,
        requesterSlotId |-> handlers[h].mySlotId,
        requestedSlotId |-> handlers[h].theirSlotId,
        status |-> PENDING])
  /\ Await(h, handlers[h], "updateMySlot")
  /\ UNCHANGED events

\* Event.findByIdAndUpdate(mySlotId, { status: SWAP_PENDING })
SwapRequestUpdateMySlot(h) ==
  /\ At(h, "swapRequest", "updateMySlot")
  /\ ~WriteLocked(h, <<"Event", handlers[h].mySlotId>>)
  /\ events' = EventUpdateStatus(events, handlers[h].mySlotId, SWAP_PENDING)
  /\ Await(h, handlers[h], "updateTheirSlot")
  /\ UNCHANGED swapRequests

\* Event.findByIdAndUpdate(theirSlotId, { status: SWAP_PENDING }), then 201.
SwapRequestUpdateTheirSlot(h) ==
  /\ At(h, "swapRequest", "updateTheirSlot")
  /\ ~WriteLocked(h, <<"Event", handlers[h].theirSlotId>>)
  /\ events' = EventUpdateStatus(events, handlers[h].theirSlotId, SWAP_PENDING)
  /\ Answer(h, Response(201, "swap request"))
  /\ UNCHANGED swapRequests

\* ------------------------- routes/swaps.ts: POST /swap-response/:requestId
\* A populated path whose query has not returned yet.
Unread == [unread |-> TRUE]

\* router.post('/swap-response/:requestId') up to SwapRequest.findById.
PostSwapResponse(h) ==
  /\ IsFree(h)
  /\ \E userId \in Users, requestId \in InvalidId..MaxRequests, accepted \in BOOLEAN :
       IF requestId = InvalidId
       THEN Refuse(h, "swapResponse", Response(400, "Invalid request ID"))
       ELSE Await(h, [op |-> "swapResponse", pc |-> "", resp |-> NoResponse,
                      userId |-> userId, requestId |-> requestId,
                      accepted |-> accepted, swapRequest |-> Null,
                      requesterSlot |-> Unread, requestedSlot |-> Unread,
                      snapshot |-> << >>], "findById")
  /\ UNCHANGED <<events, swapRequests>>

\* The two checks with the recipient check left out.
SwapResponseChecksWithoutRecipient(userId, swapRequest) ==
  IF swapRequest.status # PENDING
  THEN Response(400, "This swap request has already been processed")
  ELSE NoResponse

\* The two checks with the pending check left out.
SwapResponseChecksWithoutPending(userId, swapRequest) ==
  IF swapRequest.requestedId # userId
  THEN Response(403, "You are not authorized to respond to this swap request")
  ELSE NoResponse

\* The two checks with the pending check put first.
SwapResponseChecksPendingFirst(userId, swapRequest) ==
  IF swapRequest.status # PENDING
  THEN Response(400, "This swap request has already been processed")
  ELSE IF swapRequest.requestedId # userId
  THEN Response(403, "You are not authorized to respond to this swap request")
  ELSE NoResponse

\* The recipient check and the pending check, in the code's order: the error
\* response, or NoResponse when both pass.  They read the SwapRequest document
\* alone, none of its populated paths.
SwapResponseChecks(userId, swapRequest) ==
  IF swapRequest.requestedId # userId
  THEN Response(403, "You are not authorized to respond to this swap request")
  ELSE IF swapRequest.status # PENDING
  THEN Response(400, "This swap request has already been processed")
  ELSE NoResponse

\* SwapRequest.findById(requestId): null ends the query with 404, a document
\* goes on to be populated.  The two checks that follow the populated query
\* are decided by this document, and the populate queries only read, so a
\* handler that fails a check is answered here.
SwapResponseFindById(h) ==
  /\ At(h, "swapResponse", "findById")
  /\ LET swapRequest == SwapRequestFindById(handlers[h].requestId)
     IN IF swapRequest = Null
        THEN Answer(h, Response(404, "Swap request not found"))
        ELSE IF SwapResponseChecks(handlers[h].userId, swapRequest) # NoResponse
        THEN Answer(h, SwapResponseChecks(handlers[h].userId, swapRequest))
        ELSE Await(h, [handlers[h] EXCEPT !.swapRequest = swapRequest], "populate")
  /\ UNCHANGED <<events, swapRequests>>

\* The query resolves once both paths are populated.  The accept branch then
\* dereferences both populated slots: a null one throws, which the outer
\* catch answers with 500.  Otherwise the handler starts a session and a
\* transaction and awaits the first update.
SwapResponsePopulated(h, req) ==
  IF req.requesterSlot = Unread \/ req.requestedSlot = Unread
  THEN Await(h, req, "populate")
  ELSE IF req.accepted /\ (req.requesterSlot = Null \/ req.requestedSlot = Null)
  THEN Answer(h, InternalServerError)
  ELSE Await(h, req, "updateSwapRequest")

\* .populate('requesterSlotId', ...): its own query on the Event collection.
SwapResponsePopulateRequesterSlot(h) ==
  /\ At(h, "swapResponse", "populate")
  /\ handlers[h].requesterSlot = Unread
  /\ SwapResponsePopulated(h, [handlers[h] EXCEPT !.requesterSlot =
       Select(EventFindById(handlers[h].swapRequest.requesterSlotId), {"userId"})])
  /\ UNCHANGED <<events, swapRequests>>

\* .populate('requestedSlotId', ...): its own query on the Event collection.
SwapResponsePopulateRequestedSlot(h) ==
  /\ At(h, "swapResponse", "populate")
  /\ handlers[h].requestedSlot = Unread
  /\ SwapResponsePopulated(h, [handlers[h] EXCEPT !.requestedSlot =
       Select(EventFindById(handlers[h].swapRequest.requestedSlotId), {"userId"})])
  /\ UNCHANGED <<events, swapRequests>>

\* The update rewriting the parties of an accepted request along with its
\* status.
UpdateSwapRequestAndParties(requests, req) ==
  IF req.accepted
  THEN [requests EXCEPT ![req.requestId].status = ACCEPTED,
                        ![req.requestId].requesterId = requests[req.requestId].requestedId,
                        ![req.requestId].requestedId = requests[req.requestId].requesterId]
  ELSE [requests EXCEPT ![req.requestId].status = REJECTED]

\* SwapRequest.findByIdAndUpdate(requestId, { status: ACCEPTED | REJECTED })
UpdateSwapRequest(requests, req) ==
  [requests EXCEPT ![req.requestId].status =
     IF req.accepted THEN ACCEPTED ELSE REJECTED]

\* The accept branch as the README describes it: the offered slot takes over
\* the time range of the requested slot.
UpdateRequesterSlotExchangingTimes(evs, req) ==
  IF req.accepted
  THEN [evs EXCEPT ![RequesterSlotId(req)].startTime = evs[RequestedSlotId(req)].startTime,
                   ![RequesterSlotId(req)].endTime = evs[RequestedSlotId(req)].endTime,
                   ![RequesterSlotId(req)].status = BUSY]
  ELSE EventUpdateStatus(evs, RequesterSlotId(req), SWAPPABLE)

\* Event.findByIdAndUpdate(swapRequest.requesterSlotId, ...): the accept branch
\* gives the slot the owner read from the requested slot, the reject branch
\* sets the status alone.
UpdateRequesterSlot(evs, req) ==
  IF req.accepted
  THEN EventUpdateOwnerAndStatus(evs, RequesterSlotId(req), req.requestedSlot.userId, BUSY)
  ELSE EventUpdateStatus(evs, RequesterSlotId(req), SWAPPABLE)

\* Both branches handing the requested slot over to the requester.
UpdateRequestedSlotAlwaysReassigning(evs, req) ==
  EventUpdateOwnerAndStatus(evs, RequestedSlotId(req), req.requesterSlot.userId,
                            IF req.accepted THEN BUSY ELSE SWAPPABLE)

\* Event.findByIdAndUpdate(swapRequest.requestedSlotId, ...)
UpdateRequestedSlot(evs, req) ==
  IF req.accepted
  THEN EventUpdateOwnerAndStatus(evs, RequestedSlotId(req), req.requesterSlot.userId, BUSY)
  ELSE EventUpdateStatus(evs, RequestedSlotId(req), SWAPPABLE)

\* Event id has been changed since the transaction of handler h took its
\* snapshot, at its first operation.
Stale(h, id) ==
  /\ id \in 1..Len(handlers[h].snapshot)
  /\ events[id] # handlers[h].snapshot[id]

\* An update issued without { session } is visible at once.
WithoutSession(committed, updated) == updated

\* An update issued with { session }: the collection as other requests see it
\* stays as committed until the transaction commits.
InSession(committed, updated) == committed

\* await SwapRequest.findByIdAndUpdate(requestId, { status }, { session }):
\* the first operation of the transaction, which takes its snapshot.  A
\* document that another open transaction has written is a write conflict:
\* the operation rejects, the transaction is aborted, the answer is 500.
SwapResponseUpdateSwapRequest(h) ==
  /\ At(h, "swapResponse", "updateSwapRequest")
  /\ IF WriteLocked(h, <<"SwapRequest", handlers[h].requestId>>)
     THEN /\ Answer(h, InternalServerError)
          /\ UNCHANGED swapRequests
     ELSE /\ Await(h, [handlers[h] EXCEPT !.snapshot = events], "updateRequesterSlot")
          /\ swapRequests' = InSession(swapRequests, UpdateSwapRequest(swapRequests, handlers[h]))
  /\ UNCHANGED events

\* await Event.findByIdAndUpdate(swapRequest.requesterSlotId, ..., { session })
SwapResponseUpdateRequesterSlot(h) ==
  /\ At(h, "swapResponse", "updateRequesterSlot")
  /\ IF \/ WriteLocked(h, <<"Event", RequesterSlotId(handlers[h])>>)
        \/ Stale(h, RequesterSlotId(handlers[h]))
     THEN /\ Answer(h, InternalServerError)
          /\ UNCHANGED events
     ELSE /\ Await(h, handlers[h], "updateRequestedSlot")
          /\ events' = InSession(events, UpdateRequesterSlot(events, handlers[h]))
  /\ UNCHANGED swapRequests

\* await Event.findByIdAndUpdate(swapRequest.requestedSlotId, ..., { session })
SwapResponseUpdateRequestedSlot(h) ==
  /\ At(h, "swapResponse", "updateRequestedSlot")
  /\ IF \/ WriteLocked(h, <<"Event", RequestedSlotId(handlers[h])>>)
        \/ Stale(h, RequestedSlotId(handlers[h]))
     THEN /\ Answer(h, InternalServerError)
          /\ UNCHANGED events
     ELSE /\ Await(h, handlers[h], "commitTransaction")
          /\ events' = InSession(events, UpdateRequestedSlot(events, handlers[h]))
  /\ UNCHANGED swapRequests

\* await session.commitTransaction(): the three updates of the session become
\* visible together; then the 200 response.
SwapResponseCommitTransaction(h) ==
  /\ At(h, "swapResponse", "commitTransaction")
  /\ swapRequests' = UpdateSwapRequest(swapRequests, handlers[h])
  /\ events' = UpdateRequestedSlot(UpdateRequesterSlot(events, handlers[h]), handlers[h])
  /\ Answer(h, Response(200, IF handlers[h].accepted THEN "Swap accepted successfully"
                             ELSE "Swap rejected"))

\* ------------------------------------ routes/swaps.ts: GET /swappable-slots
\* .sort({ startTime: 1 }): the ids of set ids as a sequence in ascending
\* order of startTime.
SortByStartTime(ids) ==
  CHOOSE seq \in [1..Cardinality(ids) -> ids] :
    /\ \A i, j \in 1..Cardinality(ids) : i # j => seq[i] # seq[j]
    /\ \A i, j \in 1..Cardinality(ids) :
         i < j => events[seq[i]].startTime <= events[seq[j]].startTime

\* Event.find({ status: SWAPPABLE, userId: { $ne: userId } }): the filter
\* alone, without the status, as a request that forgets it would send it.
EventFindOfOthers(userId) ==
  {id \in 1..Len(events) : events[id] # Null /\ events[id].userId # userId}

\* Event.find({ status: SWAPPABLE, userId: { $ne: userId } })
EventFindSwappableOfOthers(userId) ==
  {id \in 1..Len(events) :
     /\ events[id] # Null
     /\ events[id].status = SWAPPABLE
     /\ events[id].userId # userId}

\* router.get('/swappable-slots') up to Event.find.
GetSwappableSlots(h) ==
  /\ IsFree(h)
  /\ \E userId \in Users :
       Await(h, [op |-> "swappableSlots", pc |-> "", resp |-> NoResponse,
                 userId |-> userId], "find")
  /\ UNCHANGED <<events, swapRequests>>

\* Event.find(...).populate('userId').sort({ startTime: 1 }), then the
\* response: the slots found, in the order of the sort.
SwappableSlotsFind(h) ==
  /\ At(h, "swappableSlots", "find")
  /\ handlers' = [handlers EXCEPT ![h] =
       [op |-> "swappableSlots", pc |-> "done", resp |-> Response(200, "slots"),
        slots |-> SortByStartTime(EventFindSwappableOfOthers(handlers[h].userId))]]
  /\ UNCHANGED <<events, swapRequests>>

\* -------------------------------------- routes/swaps.ts: GET /swap-requests
\* The ids of set ids, oldest first.
SortOldestFirst(ids) ==
  [i \in 1..Cardinality(ids) |->
     CHOOSE r \in ids : Cardinality({q \in ids : q < r}) = i - 1]

\* .sort({ createdAt: -1 }): the ids of set ids, newest first (the collection
\* is kept in the order of creation).
SortNewestFirst(ids) ==
  [i \in 1..Cardinality(ids) |->
     CHOOSE r \in ids : Cardinality({q \in ids : q > r}) = i - 1]

\* SwapRequest.find({ requestedId: userId })
SwapRequestFindIncoming(userId) ==
  {r \in 1..Len(swapRequests) : swapRequests[r].requestedId = userId}

\* SwapRequest.find({ requesterId: userId })
SwapRequestFindOutgoing(userId) ==
  {r \in 1..Len(swapRequests) : swapRequests[r].requesterId = userId}

\* router.get('/swap-requests') up to Promise.all: both queries are issued.
GetSwapRequests(h) ==
  /\ IsFree(h)
  /\ \E userId \in Users :
       Await(h, [op |-> "swapRequests", pc |-> "", resp |-> NoResponse,
                 userId |-> userId, incoming |-> << >>, outgoing |-> << >>], "find")
  /\ UNCHANGED <<events, swapRequests>>

\* Promise.all resolves once both queries have returned: then the response.
SwapRequestsFound(h, req, other) ==
  IF handlers[h].pc = "find"
  THEN Await(h, req, other)
  ELSE handlers' = [handlers EXCEPT ![h] =
         [op |-> "swapRequests", pc |-> "done", resp |-> Response(200, "swap requests"),
          incoming |-> req.incoming, outgoing |-> req.outgoing]]

\* The incoming query returns, before or after the outgoing one.
SwapRequestsFindIncoming(h) ==
  /\ handlers[h].op = "swapRequests"
  /\ handlers[h].pc \in {"find", "findIncoming"}
  /\ SwapRequestsFound(h, [handlers[h] EXCEPT !.incoming =
       SortNewestFirst(SwapRequestFindIncoming(handlers[h].userId))], "findOutgoing")
  /\ UNCHANGED <<events, swapRequests>>

\* The outgoing query returns, before or after the incoming one.
SwapRequestsFindOutgoing(h) ==
  /\ handlers[h].op = "swapRequests"
  /\ handlers[h].pc \in {"find", "findOutgoing"}
  /\ SwapRequestsFound(h, [handlers[h] EXCEPT !.outgoing =
       SortNewestFirst(SwapRequestFindOutgoing(handlers[h].userId))], "findIncoming")
  /\ UNCHANGED <<events, swapRequests>>

\* ------------------------------------ routes/import.ts: POST /calendar
\* What parseICSFile and parseCSVFile return: a list of { title, startTime,
\* endTime }.  parseCSVFile replaces an endTime that is not after startTime;
\* parseICSFile passes it on.
ParsedEvents(Titles, StartTimes, EndTimes) ==
  [title : Titles, startTime : StartTimes, endTime : EndTimes]

\* The uploaded files, as the lists of events they parse to: no event, one
\* event, or two events of which the second repeats the first.
ParsedFiles(Titles, StartTimes, EndTimes) ==
  {<< >>}
    \cup {<<e>> : e \in ParsedEvents(Titles, StartTimes, EndTimes)}
    \cup {<<e, e>> : e \in ParsedEvents(Titles, StartTimes, EndTimes)}

\* The loop over the parsed events moves on to event i, or ends with the
\* response when there is none.
ImportLoop(h, req, i) ==
  IF i > Len(req.events)
  THEN Answer(h, Response(200, "Successfully imported"))
  ELSE Await(h, [req EXCEPT !.i = i], "findExisting")

\* router.post('/calendar') up to the first Event.findOne.
PostImportCalendar(h, Titles, StartTimes, EndTimes) ==
  /\ IsFree(h)
  /\ \E userId \in Users, parsed \in ParsedFiles(Titles, StartTimes, EndTimes) :
       IF parsed = << >>
       THEN Refuse(h, "import", Response(400, "No valid events found in the file"))
       ELSE /\ Len(events) + Len(parsed) <= MaxEvents
            /\ ImportLoop(h, [op |-> "import", pc |-> "", resp |-> NoResponse,
                              userId |-> userId, events |-> parsed, i |-> 1], 1)
  /\ UNCHANGED <<events, swapRequests>>

\* Event.findOne({ userId, title, startTime within one minute }): the
\* instants of the model are more than a minute apart.
ImportDuplicateExists(userId, eventData) ==
  \E id \in 1..Len(events) :
    /\ events[id] # Null
    /\ events[id].userId = userId
    /\ events[id].title = eventData.title
    /\ events[id].startTime = eventData.startTime

\* await Event.findOne(duplicate), then the time range validation: a
\* duplicate and an invalid range are skipped.
ImportFindExisting(h) ==
  /\ At(h, "import", "findExisting")
  /\ LET eventData == handlers[h].events[handlers[h].i]
     IN IF ImportDuplicateExists(handlers[h].userId, eventData)
        THEN ImportLoop(h, handlers[h], handlers[h].i + 1)
        ELSE IF eventData.endTime <= eventData.startTime
        THEN ImportLoop(h, handlers[h], handlers[h].i + 1)
        ELSE Await(h, handlers[h], "create")
  /\ UNCHANGED <<events, swapRequests>>

\* The import creating its events as exchangeable ones.
ImportCreateSwappable(h) ==
  /\ At(h, "import", "create")
  /\ LET eventData == handlers[h].events[handlers[h].i]
     IN events' = Append(events,
          [title |-> eventData.title, startTime |-> eventData.startTime,
           endTime |-> eventData.endTime, status |-> SWAPPABLE,
           userId |-> handlers[h].userId])
  /\ ImportLoop(h, handlers[h], handlers[h].i + 1)
  /\ UNCHANGED swapRequests

\* await Event.create({ title, startTime, endTime, status: BUSY, userId })
ImportCreate(h) ==
  /\ At(h, "import", "create")
  /\ LET eventData == handlers[h].events[handlers[h].i]
     IN events' = Append(events,
          [title |-> eventData.title, startTime |-> eventData.startTime,
           endTime |-> eventData.endTime, status |-> BUSY,
           userId |-> handlers[h].userId])
  /\ ImportLoop(h, handlers[h], handlers[h].i + 1)
  /\ UNCHANGED swapRequests

\* The inner catch of the loop: an Event.findOne or Event.create that
\* rejects skips the event, and the loop goes on.
ImportOperationFails(h) ==
  /\ handlers[h].op = "import"
  /\ ~IsFree(h)
  /\ ImportLoop(h, handlers[h], handlers[h].i + 1)
  /\ UNCHANGED <<events, swapRequests>>

\* ------------------------------------------------------------- every handler
\* The awaited store operation rejects (store unavailable, write conflict,
\* commit failure): the catch block answers 500; a transaction is aborted.
\* (The import loop has a catch of its own.)
StoreOperationFails(h) ==
  /\ ~IsFree(h)
  /\ handlers[h].op # "import"
  /\ Answer(h, InternalServerError)
  /\ UNCHANGED <<events, swapRequests>>

\* ------------------------------------------------------------- specification
\* routes/events.ts: POST /
CreateEventRoute(h, Titles, StartTimes, EndTimes) ==
  \/ PostEvent(h, Titles, StartTimes, EndTimes)
  \/ CreateEventCreate(h)

\* routes/events.ts: PUT /:id and DELETE /:id
EventRoutes(h, Titles, StartTimes, EndTimes, Statuses) ==
  \/ PutEvent(h, Titles, StartTimes, EndTimes, Statuses)
  \/ UpdateEventFindExisting(h)
  \/ UpdateEventFindPendingSwap(h)
  \/ UpdateEventFindByIdAndUpdate(h)
  \/ DeleteEvent(h)
  \/ DeleteEventFindExisting(h)
  \/ DeleteEventFindPendingSwap(h)
  \/ DeleteEventFindByIdAndDelete(h)

\* routes/swaps.ts: POST /swap-request
SwapRequestRoute(h) ==
  \/ PostSwapRequest(h)
  \/ SwapRequestFindMySlot(h)
  \/ SwapRequestFindTheirSlot(h)
  \/ SwapRequestFindExistingSwap(h)
  \/ SwapRequestCreate(h)
  \/ SwapRequestUpdateMySlot(h)
  \/ SwapRequestUpdateTheirSlot(h)

\* routes/swaps.ts: POST /swap-response/:requestId
SwapResponseRoute(h) ==
  \/ PostSwapResponse(h)
  \/ SwapResponseFindById(h)
  \/ SwapResponsePopulateRequesterSlot(h)
  \/ SwapResponsePopulateRequestedSlot(h)
  \/ SwapResponseUpdateSwapRequest(h)
  \/ SwapResponseUpdateRequesterSlot(h)
  \/ SwapResponseUpdateRequestedSlot(h)
  \/ SwapResponseCommitTransaction(h)

\* routes/swaps.ts: GET /swappable-slots and GET /swap-requests
ListRoutes(h) ==
  \/ GetSwappableSlots(h)
  \/ SwappableSlotsFind(h)
  \/ GetSwapRequests(h)
  \/ SwapRequestsFindIncoming(h)
  \/ SwapRequestsFindOutgoing(h)

\* routes/import.ts: POST /calendar
ImportRoute(h, Titles, StartTimes, EndTimes) ==
  \/ PostImportCalendar(h, Titles, StartTimes, EndTimes)
  \/ ImportFindExisting(h)
  \/ ImportCreate(h)
  \/ ImportOperationFails(h)

NoHandlers == [h \in Handlers |-> Idle]

\* The server after start-up: both collections empty.
Init ==
  /\ events = << >>
  /\ swapRequests = << >>
  /\ handlers = NoHandlers

\* Every route, one request at a time.  Created and imported events carry one
\* title and the time ranges 0..1 (valid) and 0..0 (refused, skipped); updates
\* change the status.
Next ==
  \E h \in {1} :
    \/ CreateEventRoute(h, {"title"}, {0}, {0, 1})
    \/ EventRoutes(h, {Absent}, {NoTime}, {NoTime}, EventStatus)
    \/ SwapRequestRoute(h)
    \/ SwapResponseRoute(h)
    \/ ListRoutes(h)
    \/ ImportRoute(h, {"title"}, {0}, {0, 1})
    \/ StoreOperationFails(h)

Spec == Init /\ [][Next]_vars

\* Two users have each created one SWAPPABLE event (two POST / requests).
SeedEvents ==
  [id \in 1..2 |-> [title |-> "title", startTime |-> id - 1, endTime |-> id,
                    status |-> SWAPPABLE, userId |-> id]]

InitRace ==
  /\ events = SeedEvents
  /\ swapRequests = << >>
  /\ handlers = NoHandlers

\* The swap routes, with NumHandlers requests in flight at a time.
NextRace ==
  \E h \in Handlers :
    \/ SwapRequestRoute(h)
    \/ SwapResponseRoute(h)
    \/ StoreOperationFails(h)

SpecRace == InitRace /\ [][NextRace]_vars

\* The swap routes on one handler while the other serves direct edits and
\* deletions of the two events: PUT /:id with a new title, a new status, both
\* or neither, and DELETE /:id.
NextEdit ==
  \/ SwapRequestRoute(1)
  \/ SwapResponseRoute(1)
  \/ EventRoutes(2, {Absent, "renamed"}, {NoTime}, {NoTime}, {Absent, BUSY})
  \/ \E h \in Handlers : StoreOperationFails(h)

SpecEdit == InitRace /\ [][NextEdit]_vars

\* The routes that create and edit events, one request at a time: POST /,
\* POST /calendar, DELETE /:id, and PUT /:id with a new startTime (1 or 2), a
\* new endTime (0 or 1), both or neither.
NextEvents ==
  \E h \in {1} :
    \/ CreateEventRoute(h, {"title"}, {0}, {0, 1})
    \/ ImportRoute(h, {"title"}, {0}, {0, 1})
    \/ EventRoutes(h, {Absent}, {NoTime, 1, 2}, {NoTime, 0, 1}, {Absent, SWAPPABLE})
    \/ StoreOperationFails(h)

SpecEvents == Init /\ [][NextEvents]_vars

\* Any content of the SwapRequest collection: up to MaxRequests documents
\* over the users, the two events and the three statuses.
SwapRequestDocuments ==
  [requesterId : Users, requestedId : Users,
   requesterSlotId : 1..MaxEvents, requestedSlotId : 1..MaxEvents,
   status : SwapRequestStatus]

InitLookup ==
  /\ events = SeedEvents
  /\ swapRequests \in UNION {[1..n -> SwapRequestDocuments] : n \in 0..MaxRequests}
  /\ handlers = NoHandlers

\* The routes that look for a pending swap of a slot, one request at a time:
\* PUT /:id with a new status or none, DELETE /:id, POST /swap-request.
NextLookup ==
  \E h \in {1} :
    \/ EventRoutes(h, {Absent}, {NoTime}, {NoTime}, {Absent, BUSY})
    \/ SwapRequestRoute(h)
    \/ StoreOperationFails(h)

SpecLookup == InitLookup /\ [][NextLookup]_vars

\* POST /swap-request on one handler while the other serves the two lists.
NextList ==
  \/ SwapRequestRoute(1)
  \/ ListRoutes(2)
  \/ \E h \in Handlers : StoreOperationFails(h)

SpecList == InitRace /\ [][NextList]_vars

\* ===================================================================== claims
\* The slots a swap request references.
SlotsOf(r) == {swapRequests[r].requesterSlotId, swapRequests[r].requestedSlotId}

\* The PENDING swap requests of collection requests that reference slot id.
PendingRequestsIn(requests, id) ==
  {r \in 1..Len(requests) :
     /\ requests[r].status = PENDING
     /\ id \in {requests[r].requesterSlotId, requests[r].requestedSlotId}}

PendingRequestsOn(id) == PendingRequestsIn(swapRequests, id)

\* Handler h takes a step that the store answers (no rejected store operation).
Served(h) ==
  /\ handlers'[h] # handlers[h]
  /\ handlers'[h].resp # InternalServerError

Unauthorized == Response(403, "You are not authorized to respond to this swap request")
AlreadyProcessed == Response(400, "This swap request has already been processed")

\* C1: in every reachable state every slot whose status is SWAP_PENDING is
\* referenced, as requesterSlotId or requestedSlotId, by exactly one swap
\* request whose status is PENDING.
C1_PendingSlotHasOnePendingRequest ==
  \A id \in 1..Len(events) :
    (events[id] # Null /\ events[id].status = SWAP_PENDING)
      => Cardinality(PendingRequestsOn(id)) = 1

\* C2: in every state another request can observe, both slots referenced by
\* every PENDING swap request have status SWAP_PENDING.
C2_PendingRequestSlotsArePending ==
  \A r \in 1..Len(swapRequests) :
    swapRequests[r].status = PENDING
      => \A id \in SlotsOf(r) :
           EventFindById(id) # Null /\ EventFindById(id).status = SWAP_PENDING

\* C3: no slot is referenced by two different swap requests that are both
\* PENDING, under any interleaving of the handlers.
C3_NoSlotInTwoPendingRequests ==
  \A id \in 1..Len(events) : Cardinality(PendingRequestsOn(id)) <= 1

\* A createProposal handler that has passed the conflict guard: its swap
\* request is or will be persisted and, the store permitting, answered 201.
PastConflictGuard(h) ==
  /\ handlers[h].op = "swapRequest"
  /\ handlers[h].pc \in {"create", "updateMySlot", "updateTheirSlot"}

\* C4: of two concurrent createProposal calls that name the same slot only
\* one succeeds: the two are never both past the conflict guard.
C4_OneConcurrentCreateSucceeds ==
  \A h1, h2 \in Handlers :
    (h1 # h2 /\ PastConflictGuard(h1) /\ PastConflictGuard(h2))
      => {handlers[h1].mySlotId, handlers[h1].theirSlotId}
           \cap {handlers[h2].mySlotId, handlers[h2].theirSlotId} = {}

\* C5: when a store operation of createProposal fails (the insert or either
\* slot update), then afterwards no new swap request exists and neither
\* slot's status has changed: no PENDING request references the two slots,
\* which are SWAPPABLE as they were when the handler checked them.
C5_FailedCreateLeavesNoPartialState ==
  [][\A h \in Handlers :
       (/\ PastConflictGuard(h)
        /\ handlers'[h].pc = "done"
        /\ handlers'[h].resp = InternalServerError)
       => /\ PendingRequestsIn(swapRequests', handlers[h].mySlotId) = {}
          /\ PendingRequestsIn(swapRequests', handlers[h].theirSlotId) = {}
          /\ events'[handlers[h].mySlotId].status = SWAPPABLE
          /\ events'[handlers[h].theirSlotId].status = SWAPPABLE]_vars

\* Handler h commits the transaction of an accept (TRUE) or a reject (FALSE).
Resolves(h, accepted) ==
  /\ At(h, "swapResponse", "commitTransaction")
  /\ handlers[h].accepted = accepted
  /\ handlers'[h].pc = "done"
  /\ handlers'[h].resp.status = 200

\* C6: a successful accept leaves the request ACCEPTED, the offered slot
\* owned by the request's recorded requestedId with status BUSY and the
\* requested slot owned by the recorded requesterId with status BUSY.
C6_AcceptExchangesOwners ==
  [][\A h \in Handlers :
       Resolves(h, TRUE) =>
         LET r == swapRequests'[handlers[h].requestId]
         IN /\ r.status = ACCEPTED
            /\ events'[r.requesterSlotId].userId = r.requestedId
            /\ events'[r.requesterSlotId].status = BUSY
            /\ events'[r.requestedSlotId].userId = r.requesterId
            /\ events'[r.requestedSlotId].status = BUSY]_vars

\* C7: a successful reject leaves the request REJECTED and both slots
\* SWAPPABLE with the owners they had when the request was created: the
\* offered slot its requester, the requested slot its recipient.
C7_RejectRestoresSlots ==
  [][\A h \in Handlers :
       Resolves(h, FALSE) =>
         LET r == swapRequests'[handlers[h].requestId]
         IN /\ r.status = REJECTED
            /\ events'[r.requesterSlotId].userId = r.requesterId
            /\ events'[r.requesterSlotId].status = SWAPPABLE
            /\ events'[r.requestedSlotId].userId = r.requestedId
            /\ events'[r.requestedSlotId].status = SWAPPABLE]_vars

\* C8: once a swap request is ACCEPTED or REJECTED it keeps that status in
\* every later state.
C8_ResolvedStatusIsFinal ==
  [][\A r \in 1..Len(swapRequests) :
       swapRequests[r].status \in {ACCEPTED, REJECTED}
         => swapRequests'[r].status = swapRequests[r].status]_vars

\* Handler h is about to look up a swap request that exists and is resolved.
LooksUpResolved(h) ==
  /\ At(h, "swapResponse", "findById")
  /\ handlers[h].requestId \in 1..Len(swapRequests)
  /\ swapRequests[handlers[h].requestId].status \in {ACCEPTED, REJECTED}

\* C9 as stated: resolveProposal on a swap request that is already ACCEPTED
\* or REJECTED is answered with the already-processed error, whoever calls,
\* and changes neither the swap requests nor the slots.
C9_ResolvedAlwaysAlreadyProcessed ==
  [][\A h \in Handlers :
       (LooksUpResolved(h) /\ Served(h))
         => /\ handlers'[h].resp = AlreadyProcessed
            /\ UNCHANGED <<events, swapRequests>>]_vars

\* C9 as amended: resolveProposal called by the request's recorded recipient
\* on a swap request that is already ACCEPTED or REJECTED is answered with
\* the already-processed error; called by anyone else it is answered with
\* the unauthorized error; if the lookup itself fails, with the generic 500.
\* In every case the swap requests and the slots stay as they are.
C9_RecipientGetsAlreadyProcessed ==
  [][\A h \in Handlers :
       (LooksUpResolved(h) /\ handlers'[h] # handlers[h])
         => /\ handlers'[h].pc = "done"
            /\ handlers'[h].resp =
                 IF ~Served(h) THEN InternalServerError
                 ELSE IF handlers[h].userId = swapRequests[handlers[h].requestId].requestedId
                 THEN AlreadyProcessed
                 ELSE Unauthorized
            /\ UNCHANGED <<events, swapRequests>>]_vars

\* C9's case: the recipient has been answered already-processed.
C9_Witness ==
  \E h \in Handlers :
    handlers[h].op = "swapResponse" /\ handlers[h].resp = AlreadyProcessed

\* Handler h is about to look up a swap request whose recipient it is not.
LooksUpAsStranger(h) ==
  /\ At(h, "swapResponse", "findById")
  /\ handlers[h].requestId \in 1..Len(swapRequests)
  /\ swapRequests[handlers[h].requestId].requestedId # handlers[h].userId

\* C10: resolveProposal called by any user other than the request's
\* recorded requestedId is answered with the unauthorized error, whatever
\* the request's status, and changes neither the swap requests nor the
\* slots (a lookup the store rejects is answered 500, without a change too).
C10_StrangerIsUnauthorized ==
  [][\A h \in Handlers :
       (LooksUpAsStranger(h) /\ handlers'[h] # handlers[h])
         => /\ handlers'[h].pc = "done"
            /\ handlers'[h].resp =
                 IF Served(h) THEN Unauthorized ELSE InternalServerError
            /\ UNCHANGED <<events, swapRequests>>]_vars

\* C10's case: one caller has been answered unauthorized, and the proposer
\* of a request that is already resolved is about to look it up.
C10_Witness ==
  \E h1, h2 \in Handlers :
    /\ handlers[h1].op = "swapResponse"
    /\ handlers[h1].resp = Unauthorized
    /\ LooksUpAsStranger(h2)
    /\ LooksUpResolved(h2)
    /\ handlers[h2].userId = swapRequests[handlers[h2].requestId].requesterId

\* Handler h has a transaction open: it awaits one of the three updates or
\* the commit.
InTransaction(h) ==
  /\ handlers[h].op = "swapResponse"
  /\ handlers[h].pc \in {"updateSwapRequest", "updateRequesterSlot",
                         "updateRequestedSlot", "commitTransaction"}

\* After the step the three updates of handler h's accept or reject are all
\* in the store: the request's status, and owner and status of both slots.
AppliedAll(h) ==
  LET req == handlers[h]
      r == swapRequests'[req.requestId]
  IN /\ r.status = IF req.accepted THEN ACCEPTED ELSE REJECTED
     /\ \A id \in {r.requesterSlotId, r.requestedSlotId} :
          events'[id] # Null =>
            events'[id].status = IF req.accepted THEN BUSY ELSE SWAPPABLE
     /\ (req.accepted /\ events'[r.requesterSlotId] # Null)
          => events'[r.requesterSlotId].userId = req.requestedSlot.userId
     /\ (req.accepted /\ events'[r.requestedSlotId] # Null)
          => events'[r.requestedSlotId].userId = req.requesterSlot.userId

\* C11: resolution is atomic.  Every step of a handler inside its transaction
\* either leaves the swap requests and the slots as other requests see them
\* unchanged, or is the successful commit, after which all three updates are
\* visible together; a step that fails (an update or the commit, answered
\* 500) leaves the request and both slots as they were.
C11_ResolutionIsAtomic ==
  [][\A h \in Handlers :
       (InTransaction(h) /\ handlers'[h] # handlers[h])
         => \/ UNCHANGED <<events, swapRequests>>
            \/ /\ handlers'[h].resp.status = 200
               /\ AppliedAll(h)]_vars

\* C11's case: a handler has issued all three updates of its transaction and
\* has not committed, so the request is still PENDING in the store, while
\* another handler is reading the same request and its slots.
C11_Witness ==
  \E h, g \in Handlers :
    /\ At(h, "swapResponse", "commitTransaction")
    /\ swapRequests[handlers[h].requestId].status = PENDING
    /\ At(g, "swapResponse", "populate")
    /\ handlers[g].requestId = handlers[h].requestId

\* Handler h serves a direct edit or a deletion of an event that exists and
\* whose status is SWAP_PENDING.
EditsPendingSlot(h) ==
  /\ handlers[h].op \in {"updateEvent", "deleteEvent"}
  /\ handlers[h].pc # "done"
  /\ EventFindById(handlers[h].id) # Null
  /\ EventFindById(handlers[h].id).status = SWAP_PENDING

\* C12: while a slot's status is SWAP_PENDING, no step of a PUT /events/:id
\* or DELETE /events/:id handler on that slot changes or removes it, and the
\* handler is not answered with success (200, 204).
C12_PendingSlotIsNotEdited ==
  [][\A h \in Handlers :
       (EditsPendingSlot(h) /\ handlers'[h] # handlers[h])
         => /\ events'[handlers[h].id] = events[handlers[h].id]
            /\ handlers'[h].resp.status \notin {200, 204}]_vars

\* The step gives slot id the status SWAP_PENDING: the slot is new with that
\* status, or had another status before.
BecomesPending(id) ==
  /\ events'[id] # Null
  /\ events'[id].status = SWAP_PENDING
  /\ IF id \in 1..Len(events)
     THEN events[id] # Null /\ events[id].status # SWAP_PENDING
     ELSE TRUE

\* The step is one of the two slot updates of a createProposal handler that
\* has inserted its swap request, and the update is on slot id.
MarksPending(h, id) ==
  /\ handlers'[h] # handlers[h]
  /\ \/ At(h, "swapRequest", "updateMySlot") /\ handlers[h].mySlotId = id
     \/ At(h, "swapRequest", "updateTheirSlot") /\ handlers[h].theirSlotId = id

\* C13: a slot's status becomes SWAP_PENDING only in a slot update of a
\* createProposal that references the slot; no step of event creation or
\* event update produces a slot with status SWAP_PENDING.
C13_PendingOnlyByCreateProposal ==
  [][\A id \in 1..Len(events') :
       BecomesPending(id) => \E h \in Handlers : MarksPending(h, id)]_vars

\* The step takes slot id out of SWAP_PENDING: to another status, or away.
LeavesPending(id) ==
  /\ events[id] # Null
  /\ events[id].status = SWAP_PENDING
  /\ events'[id] = Null \/ events'[id].status # SWAP_PENDING

\* C14: a slot whose status is SWAP_PENDING leaves that status only in the
\* commit of a successful accept or reject of a swap request that references
\* it; no step of an event update or delete takes it out of SWAP_PENDING.
C14_PendingLeftOnlyByResolve ==
  [][\A id \in 1..Len(events) :
       LeavesPending(id) =>
         \E h \in Handlers :
           /\ Resolves(h, TRUE) \/ Resolves(h, FALSE)
           /\ id \in {handlers[h].swapRequest.requesterSlotId,
                      handlers[h].swapRequest.requestedSlotId}]_vars

YourSlotNotFound == Response(404, "Your slot not found")
SelfSwap == Response(400, "Cannot swap with your own slot")
Conflict == Response(400, "One or both slots are already involved in a pending swap")
YourSlotNotSwappable == Response(400, "Your slot must be marked as swappable")
RequestedSlotNotSwappable == Response(400, "Requested slot is not swappable")

\* Handler h has looked up the offered slot as its own and is about to look
\* up the requested slot, which exists.
ChecksSlots(h) ==
  /\ At(h, "swapRequest", "findTheirSlot")
  /\ EventFindById(handlers[h].theirSlotId) # Null

\* C15: createProposal whose offered slot exists and is owned by someone
\* else (the requested slot exists) is refused with an error other than the
\* one a missing offered slot gets, and changes neither collection.
C15_ForeignSlotIsOwnershipMismatch ==
  [][\A h \in Handlers :
       (/\ ChecksSlots(h)
        /\ handlers[h].mySlot = Null
        /\ EventFindById(handlers[h].mySlotId) # Null
        /\ EventFindById(handlers[h].mySlotId).userId # handlers[h].userId
        /\ Served(h))
       => /\ handlers'[h].pc = "done"
          /\ handlers'[h].resp.status # 201
          /\ handlers'[h].resp # YourSlotNotFound
          /\ UNCHANGED <<events, swapRequests>>]_vars

\* C16: createProposal whose offered slot is the caller's and whose requested
\* slot is the caller's too (the same slot or another one) is refused with
\* the self-swap error whatever the status of the slots, and changes neither
\* collection.
C16_OwnSlotIsSelfSwap ==
  [][\A h \in Handlers :
       (/\ ChecksSlots(h)
        /\ handlers[h].mySlot # Null
        /\ EventFindById(handlers[h].theirSlotId).userId = handlers[h].userId
        /\ Served(h))
       => /\ handlers'[h].pc = "done"
          /\ handlers'[h].resp = SelfSwap
          /\ UNCHANGED <<events, swapRequests>>]_vars

\* C17: createProposal by the owner of the offered slot for another user's
\* slot, where one of the two is referenced by a PENDING swap request, is
\* refused with the conflict error and no other, and changes neither
\* collection.
C17_PendingSlotIsConflict ==
  [][\A h \in Handlers :
       (/\ handlers[h].op = "swapRequest"
        /\ handlers[h].pc \in {"findTheirSlot", "findExistingSwap"}
        /\ handlers[h].mySlot # Null
        /\ EventFindById(handlers[h].theirSlotId) # Null
        /\ EventFindById(handlers[h].theirSlotId).userId # handlers[h].userId
        /\ PendingSwapExists({handlers[h].mySlotId, handlers[h].theirSlotId})
        /\ Served(h))
       => /\ handlers'[h].pc = "done"
          /\ handlers'[h].resp = Conflict
          /\ UNCHANGED <<events, swapRequests>>]_vars

\* The step persists a swap request: the new document.
Persisted == swapRequests'[Len(swapRequests')]

\* C18: every swap request, at the moment it is persisted, has a requester
\* other than its recipient, an offered slot owned by the requester and a
\* requested slot owned by the recipient.
C18_PersistedRequestMatchesOwners ==
  [][Len(swapRequests') > Len(swapRequests)
       => /\ Persisted.requesterId # Persisted.requestedId
          /\ EventFindById(Persisted.requesterSlotId) # Null
          /\ EventFindById(Persisted.requesterSlotId).userId = Persisted.requesterId
          /\ EventFindById(Persisted.requestedSlotId) # Null
          /\ EventFindById(Persisted.requestedSlotId).userId = Persisted.requestedId]_vars

\* C19: a swap request is persisted only when both slots it references have
\* status SWAPPABLE at that moment; and a createProposal by the owner of the
\* offered slot whose offered or requested slot is BUSY or SWAP_PENDING is
\* refused with the not-exchangeable error and changes neither collection.
C19_PersistedOnlyIfSwappable ==
  [][/\ Len(swapRequests') > Len(swapRequests)
          => \A id \in {Persisted.requesterSlotId, Persisted.requestedSlotId} :
               EventFindById(id) # Null /\ EventFindById(id).status = SWAPPABLE
     /\ \A h \in Handlers :
          (/\ ChecksSlots(h)
           /\ handlers[h].mySlot # Null
           /\ \/ handlers[h].mySlot.status # SWAPPABLE
              \/ EventFindById(handlers[h].theirSlotId).status # SWAPPABLE
           /\ Served(h))
          => /\ handlers'[h].pc = "done"
             /\ handlers'[h].resp \in {YourSlotNotSwappable, RequestedSlotNotSwappable}
             /\ UNCHANGED <<events, swapRequests>>]_vars

C25_StartBeforeEnd ==
  \A id \in 1..Len(events) :
    events[id] # Null => events[id].startTime < events[id].endTime

\* The step adds slots to the collection in an import handler.
Imports(h) ==
  /\ handlers[h].op = "import"
  /\ handlers'[h] # handlers[h]

\* C26: every step of an import handler leaves the existing slots as they
\* are, and every slot it adds has status BUSY and the importing user as
\* owner.
C26_ImportCreatesBusyOwnSlots ==
  [][\A h \in Handlers :
       Imports(h) =>
         /\ Len(events') >= Len(events)
         /\ \A id \in 1..Len(events') :
              IF id <= Len(events)
              THEN events'[id] = events[id]
              ELSE /\ events'[id].status = BUSY
                   /\ events'[id].userId = handlers[h].userId]_vars

\* C26's case: an import has been answered after creating a slot, next to a
\* slot that is not BUSY or belongs to another user.
C26_Witness ==
  /\ handlers[1].op = "import"
  /\ handlers[1].resp = Response(200, "Successfully imported")
  /\ Len(events) = 2
  /\ events[2] # Null /\ events[2].status = BUSY
  /\ events[1] # Null /\ events[1].status # BUSY

\* C21: the commit of a successful accept leaves both slots with status
\* SWAP_PENDING and with each other's startTime and endTime.
C21_AcceptExchangesTimes ==
  [][\A h \in Handlers :
       Resolves(h, TRUE) =>
         LET a == handlers[h].swapRequest.requesterSlotId
             b == handlers[h].swapRequest.requestedSlotId
         IN /\ events'[a].status = SWAP_PENDING
            /\ events'[b].status = SWAP_PENDING
            /\ events'[a].startTime = events[b].startTime
            /\ events'[a].endTime = events[b].endTime
            /\ events'[b].startTime = events[a].startTime
            /\ events'[b].endTime = events[a].endTime]_vars

\* C22: a step that changes the owner of an existing slot is the commit of a
\* successful accept of a swap request that references the slot; no step
\* of any other operation, and no failed step, changes an owner.
C22_OwnerChangesOnlyInAccept ==
  [][\A id \in 1..Len(events) :
       (/\ events[id] # Null
        /\ events'[id] # Null
        /\ events'[id].userId # events[id].userId)
       => \E h \in Handlers :
            /\ Resolves(h, TRUE)
            /\ id \in {handlers[h].swapRequest.requesterSlotId,
                       handlers[h].swapRequest.requestedSlotId}]_vars

\* C22's case: the owners of two slots have been exchanged by an accept, a
\* reject has succeeded too, and an update of an event has been answered.
C22_Witness ==
  /\ \E r \in 1..Len(swapRequests) :
       /\ swapRequests[r].status = ACCEPTED
       /\ events[swapRequests[r].requesterSlotId] # Null
       /\ events[swapRequests[r].requesterSlotId].userId = swapRequests[r].requestedId
  /\ \E r \in 1..Len(swapRequests) : swapRequests[r].status = REJECTED
  /\ \E h \in Handlers :
       handlers[h].op = "updateEvent" /\ handlers[h].resp.status = 200

\* The slots a user may ask for: SWAPPABLE and owned by someone else.
Qualifying(userId) ==
  {id \in 1..Len(events) :
     /\ events[id] # Null
     /\ events[id].status = SWAPPABLE
     /\ events[id].userId # userId}

\* Sequence list holds every element of set ids, each once.
Lists(list, ids) ==
  /\ Len(list) = Cardinality(ids)
  /\ {list[i] : i \in 1..Len(list)} = ids

\* C23: GET /swappable-slots answers with exactly the slots that are
\* SWAPPABLE and not owned by the caller, each once: none of the caller's
\* own, none that is BUSY or SWAP_PENDING, none that qualifies left out.
C23_SwappableSlotsOfOthers ==
  [][\A h \in Handlers :
       (At(h, "swappableSlots", "find") /\ Served(h))
         => /\ handlers'[h].resp.status = 200
            /\ Lists(handlers'[h].slots, Qualifying(handlers[h].userId))]_vars

\* C23's case: the list has been answered with one slot while another user's
\* slot that is not SWAPPABLE, and so not listed, exists.
C23_Witness ==
  \E h \in Handlers :
    /\ handlers[h].op = "swappableSlots"
    /\ handlers[h].resp.status = 200
    /\ Len(handlers[h].slots) = 1
    /\ events[handlers[h].slots[1]].status = SWAPPABLE
    /\ \E id \in 1..Len(events) :
         /\ events[id] # Null
         /\ events[id].status # SWAPPABLE
         /\ events[id].userId = events[handlers[h].slots[1]].userId

\* Sequence list holds the swap requests of set ids, the newest first.
ListsNewestFirst(list, ids) ==
  /\ Lists(list, ids)
  /\ \A i, j \in 1..Len(list) : i < j => list[i] > list[j]

\* C24: of GET /swap-requests the incoming query returns exactly the swap
\* requests whose requestedId is the caller and the outgoing query exactly
\* those whose requesterId is the caller, whatever their status, each list
\* newest first; and the response carries what the two queries returned.
C24_SwapRequestsOfUser ==
  [][\A h \in Handlers :
       (/\ handlers[h].op = "swapRequests"
        /\ handlers[h].pc # "done"
        /\ Served(h))
         => /\ IF handlers[h].pc = "findIncoming" \/ handlers'[h].pc = "findOutgoing"
               THEN ListsNewestFirst(handlers'[h].incoming,
                      {r \in 1..Len(swapRequests) :
                         swapRequests[r].requestedId = handlers[h].userId})
               ELSE handlers'[h].incoming = handlers[h].incoming
            /\ IF handlers[h].pc = "findOutgoing" \/ handlers'[h].pc = "findIncoming"
               THEN ListsNewestFirst(handlers'[h].outgoing,
                      {r \in 1..Len(swapRequests) :
                         swapRequests[r].requesterId = handlers[h].userId})
               ELSE handlers'[h].outgoing = handlers[h].outgoing]_vars

\* C24's case: the list has been answered to the recipient of two requests
\* on the same two slots, the older one REJECTED and the newer one PENDING.
C24_Witness ==
  \E h \in Handlers :
    /\ handlers[h].op = "swapRequests"
    /\ handlers[h].resp.status = 200
    /\ handlers[h].incoming = <<2, 1>>
    /\ handlers[h].outgoing = << >>
    /\ swapRequests[1].status = REJECTED
    /\ swapRequests[2].status = PENDING
    /\ swapRequests[2].requesterSlotId = swapRequests[1].requesterSlotId
    /\ swapRequests[2].requestedSlotId = swapRequests[1].requestedSlotId

\* C27: a step that takes a swap request out of PENDING is the commit of an
\* accept or a reject of that request by a handler whose caller is the
\* request's recorded requestedId; no swap request is ever removed.
C27_PendingUntilResolvedByRecipient ==
  [][/\ Len(swapRequests') >= Len(swapRequests)
     /\ \A r \in 1..Len(swapRequests) :
          (swapRequests[r].status = PENDING /\ swapRequests'[r].status # PENDING)
            => \E h \in Handlers :
                 /\ Resolves(h, TRUE) \/ Resolves(h, FALSE)
                 /\ handlers[h].requestId = r
                 /\ handlers[h].userId = swapRequests[r].requestedId]_vars

\* C27's case: the only swap request is PENDING still, after a resolve of it
\* by someone else than its recipient has been refused.
C27_Witness ==
  /\ Len(swapRequests) = 1
  /\ swapRequests[1].status = PENDING
  /\ \E h \in Handlers :
       handlers[h].op = "swapResponse" /\ handlers[h].resp = Unauthorized

EventNotFound == Response(404, "Event not found")

\* Handler h is about to look up, for an update or a deletion, an event that
\* exists.
LooksUpEvent(h) ==
  /\ handlers[h].op \in {"updateEvent", "deleteEvent"}
  /\ handlers[h].pc = "findExisting"
  /\ EventFindById(handlers[h].id) # Null
  /\ handlers'[h] # handlers[h]

\* C28: an update or a deletion of an existing event whose owner, when the
\* handler looks the event up, is not the caller ends there, refused, and
\* changes no event; one whose owner is the caller is not refused as not
\* found.
C28_OnlyOwnerEditsOrDeletes ==
  [][\A h \in Handlers :
       LooksUpEvent(h) =>
         IF EventFindById(handlers[h].id).userId # handlers[h].userId
         THEN /\ handlers'[h].pc = "done"
              /\ handlers'[h].resp \in {EventNotFound, InternalServerError}
              /\ UNCHANGED <<events, swapRequests>>
         ELSE Served(h) => handlers'[h].resp # EventNotFound]_vars

\* C28's case: two slots have changed hands in an accepted swap, both exist,
\* and a deletion has been refused as not found: its caller is the former
\* owner of the slot.
C28_Witness ==
  /\ Len(events) = 2
  /\ events[1] # Null /\ events[2] # Null
  /\ \E r \in 1..Len(swapRequests) :
       /\ swapRequests[r].status = ACCEPTED
       /\ events[swapRequests[r].requesterSlotId].userId = swapRequests[r].requestedId
       /\ events[swapRequests[r].requestedSlotId].userId = swapRequests[r].requesterId
  /\ handlers[1].op = "deleteEvent"
  /\ handlers[1].resp = EventNotFound

\* The error of the first check that fails, in the order: requested slot's
\* owner is not the caller, offered slot SWAPPABLE, requested slot SWAPPABLE;
\* NoResponse when the three pass.
FirstFailedCheck(userId, mySlot, theirSlot) ==
  IF theirSlot.userId = userId THEN SelfSwap
  ELSE IF mySlot.status # SWAPPABLE THEN YourSlotNotSwappable
  ELSE IF theirSlot.status # SWAPPABLE THEN RequestedSlotNotSwappable
  ELSE NoResponse

\* C29: createProposal whose two slots exist and whose offered slot is the
\* caller's is answered with the error of the first check that fails in the
\* order self-swap, offered slot SWAPPABLE, requested slot SWAPPABLE, and
\* goes on to the conflict guard when none fails.
C29_ChecksInOrder ==
  [][\A h \in Handlers :
       (ChecksSlots(h) /\ handlers[h].mySlot # Null /\ Served(h))
         => LET error == FirstFailedCheck(handlers[h].userId, handlers[h].mySlot,
                                          EventFindById(handlers[h].theirSlotId))
            IN IF error = NoResponse
               THEN handlers'[h].pc = "findExistingSwap"
               ELSE handlers'[h].pc = "done" /\ handlers'[h].resp = error]_vars

\* C30: a createProposal handler is answered with an error of its own (400,
\* 403, 404, 409) only by a step that changes neither collection, and only
\* before its first write: on arrival or at one of its three lookups.
C30_RefusedCreateChangesNothing ==
  [][\A h \in Handlers :
       (/\ handlers'[h] # handlers[h]
        /\ handlers'[h].op = "swapRequest"
        /\ handlers'[h].pc = "done"
        /\ handlers'[h].resp.status \in {400, 403, 404, 409})
       => /\ UNCHANGED <<events, swapRequests>>
          /\ \/ IsFree(h)
             \/ /\ handlers[h].op = "swapRequest"
                /\ handlers[h].pc \in {"findTheirSlot", "findExistingSwap"}]_vars

\* C30's case: a createProposal has been refused by the conflict guard, the
\* last of its checks.
C30_Witness ==
  \E h \in Handlers :
    /\ handlers[h].op = "swapRequest"
    /\ handlers[h].resp = Conflict
    /\ \E r \in 1..Len(swapRequests) : swapRequests[r].status = PENDING

CannotChangeStatus == Response(400, "Cannot change status of event involved in a pending swap")
CannotDelete == Response(400, "Cannot delete event involved in a pending swap")

\* C31: for every content of the SwapRequest collection and every slot id,
\* the lookup of the update and delete guards matches iff the conflict
\* guard's lookup for that slot matches, iff some PENDING swap request has
\* the slot as requesterSlotId or requestedSlotId; and a guard refuses the
\* update or the deletion exactly then.
C31_LookupsAgree ==
  [][/\ \A id \in 1..MaxEvents :
          /\ EventPendingSwap(id) <=> PendingSwapExists({id})
          /\ EventPendingSwap(id) <=> PendingRequestsOn(id) # {}
     /\ \A h \in Handlers :
          (/\ handlers[h].op \in {"updateEvent", "deleteEvent"}
           /\ handlers[h].pc = "findPendingSwap"
           /\ Served(h))
          => (handlers'[h].resp \in {CannotChangeStatus, CannotDelete}
                <=> PendingSwapExists({handlers[h].id}))]_vars

\* C31's case: a deletion has been refused by the guard while the collection
\* holds a resolved request next to the PENDING one, which names one slot on
\* both sides.
C31_Witness ==
  /\ handlers[1].op = "deleteEvent"
  /\ handlers[1].resp = CannotDelete
  /\ Len(swapRequests) = 2
  /\ swapRequests[1].status = ACCEPTED
  /\ swapRequests[2].status = PENDING
  /\ swapRequests[2].requestedSlotId # swapRequests[1].requestedSlotId
  /\ swapRequests[2].requesterSlotId = swapRequests[1].requesterSlotId

\* C32: every successful commit of a resolve finds its request PENDING, and
\* leaves it either ACCEPTED with both slots BUSY and their owners exchanged,
\* or REJECTED with both slots SWAPPABLE and owned by the parties the request
\* records: no request is resolved twice and no outcome mixes the two.
C32_ConcurrentResolvesAreConsistent ==
  [][\A h \in Handlers :
       (Resolves(h, TRUE) \/ Resolves(h, FALSE)) =>
         LET r == swapRequests[handlers[h].requestId]
             a == r.requesterSlotId
             b == r.requestedSlotId
         IN /\ r.status = PENDING
            /\ IF handlers[h].accepted
               THEN /\ swapRequests'[handlers[h].requestId].status = ACCEPTED
                    /\ events'[a].status = BUSY /\ events'[b].status = BUSY
                    /\ events'[a].userId = r.requestedId
                    /\ events'[b].userId = r.requesterId
               ELSE /\ swapRequests'[handlers[h].requestId].status = REJECTED
                    /\ events'[a].status = SWAPPABLE /\ events'[b].status = SWAPPABLE
                    /\ events'[a].userId = r.requesterId
                    /\ events'[b].userId = r.requestedId]_vars

\* C33: in every reachable state both slots of every PENDING swap request
\* exist.
C33_PendingRequestSlotsExist ==
  \A r \in 1..Len(swapRequests) :
    swapRequests[r].status = PENDING
      => \A id \in SlotsOf(r) : EventFindById(id) # Null

\* C34: in every reachable state the offered slot of every PENDING swap
\* request is owned by its requesterId and the requested slot by its
\* requestedId.
C34_PendingRequestMatchesOwners ==
  \A r \in 1..Len(swapRequests) :
    (/\ swapRequests[r].status = PENDING
     /\ EventFindById(swapRequests[r].requesterSlotId) # Null
     /\ EventFindById(swapRequests[r].requestedSlotId) # Null)
    => /\ events[swapRequests[r].requesterSlotId].userId = swapRequests[r].requesterId
       /\ events[swapRequests[r].requestedSlotId].userId = swapRequests[r].requestedId

\* The slots user owns in collection evs.
OwnedBy(evs, user) ==
  {id \in 1..Len(evs) : evs[id] # Null /\ evs[id].userId = user}

\* C35: no step of createProposal, accept or reject adds or removes a slot,
\* and every such step leaves each user with as many slots as before.
C35_SwapsConserveSlots ==
  [][\A h \in Handlers :
       (handlers'[h] # handlers[h] /\ handlers[h].op \in {"swapRequest", "swapResponse"})
         => /\ Len(events') = Len(events)
            /\ \A id \in 1..Len(events) : (events'[id] = Null) <=> (events[id] = Null)
            /\ \A user \in Users :
                 Cardinality(OwnedBy(events', user)) = Cardinality(OwnedBy(events, user))]_vars

\* C36: the conflict guard of createProposal refuses only when a PENDING
\* swap request references one of the two slots; otherwise, whatever
\* ACCEPTED or REJECTED requests reference them, the handler goes on to
\* create the request.
C36_ResolvedRequestsDoNotBlock ==
  [][\A h \in Handlers :
       (At(h, "swapRequest", "findExistingSwap") /\ Served(h))
         => IF PendingRequestsOn(handlers[h].mySlotId) = {}
               /\ PendingRequestsOn(handlers[h].theirSlotId) = {}
            THEN handlers'[h].pc = "create"
            ELSE handlers'[h].resp = Conflict]_vars

\* C36's case: a swap request on two slots has been rejected and a new
\* createProposal on the same two slots has been answered 201.
C36_Witness ==
  /\ Len(swapRequests) = 2
  /\ swapRequests[1].status = REJECTED
  /\ swapRequests[2].status = PENDING
  /\ SlotsOf(2) = SlotsOf(1)
  /\ \E h \in Handlers :
       handlers[h].op = "swapRequest" /\ handlers[h].resp.status = 201

\* C37: GET /swappable-slots never answers with a slot that a PENDING swap
\* request references at the time of the query.
C37_ListedSlotsAreNotPending ==
  [][\A h \in Handlers :
       (At(h, "swappableSlots", "find") /\ Served(h))
         => \A i \in 1..Len(handlers'[h].slots) :
              PendingRequestsOn(handlers'[h].slots[i]) = {}]_vars

\* Handler h resolves a swap request one of whose slots does not exist: it
\* is about to populate the slots, or is in its transaction.
ResolvesWithMissingSlot(h) ==
  /\ handlers[h].op = "swapResponse"
  /\ handlers[h].pc = "populate" \/ InTransaction(h)
  /\ \E id \in {handlers[h].swapRequest.requesterSlotId,
                handlers[h].swapRequest.requestedSlotId} : EventFindById(id) = Null

\* C38: no step of a resolve of a swap request one of whose slots does not
\* exist changes the request or a slot, and none answers with success.
C38_MissingSlotFailsResolve ==
  [][\A h \in Handlers :
       (ResolvesWithMissingSlot(h) /\ handlers'[h] # handlers[h])
         => /\ UNCHANGED <<events, swapRequests>>
            /\ handlers'[h].resp.status # 200]_vars

\* C39: no step changes requesterId, requestedId, requesterSlotId or
\* requestedSlotId of a swap request, and no swap request is removed.
C39_PartiesNeverChange ==
  [][/\ Len(swapRequests') >= Len(swapRequests)
     /\ \A r \in 1..Len(swapRequests) :
          /\ swapRequests'[r].requesterId = swapRequests[r].requesterId
          /\ swapRequests'[r].requestedId = swapRequests[r].requestedId
          /\ swapRequests'[r].requesterSlotId = swapRequests[r].requesterSlotId
          /\ swapRequests'[r].requestedSlotId = swapRequests[r].requestedSlotId]_vars

\* C39's case: an accept has handed both slots over, so that neither is owned
\* by the party the ACCEPTED request records for it, and another request has
\* been rejected.
C39_Witness ==
  /\ Len(swapRequests) = 2
  /\ \E r \in 1..2 :
       /\ swapRequests[r].status = ACCEPTED
       /\ events[swapRequests[r].requesterSlotId].userId # swapRequests[r].requesterId
       /\ events[swapRequests[r].requestedSlotId].userId # swapRequests[r].requestedId
  /\ \E r \in 1..2 : swapRequests[r].status = REJECTED

====
